---- MODULE Spec2Model ----
(***************************************************************************)
(* Decisivis engine: the prediction routes, the GeminiClient analysis      *)
(* buffer, the manual-training rate limiter and the documented             *)
(* self-learning / cache loop, as state machines.                          *)
(*                                                                         *)
(* Numbers: probabilities and accuracies are exact fractions <<num, den>>  *)
(* (the code's doubles, without rounding); form values are tenths; a       *)
(* JavaScript number that may be undefined is a set: {} for undefined,     *)
(* {n} for the number n, so that arithmetic on undefined gives NaN ({})    *)
(* and every comparison with NaN is false, as in the code.                 *)
(***************************************************************************)
EXTENDS Integers, Sequences, FiniteSets, TLC

VARIABLES
  \* ---- GeminiClient (lib/gemini-client) and its two callers
  analysisBuffer,   \* GeminiClient.analysisBuffer
  geminiModel,      \* GeminiClient.model is non-null (GEMINI_API_KEY was set)
  drains,           \* history: every run of analyzePerformance's copy-and-clear
  inflight,         \* analyses suspended at an await (indexes into drains)
  hung,             \* analyses whose generateContent call never settles
  lastAnalysis,     \* the AnalysisResult an analyzePerformance returned in the last step
  nextSeq,          \* history: number of the next append event
  lastInput,        \* the body of the last outcome report (dashboard predict route)
  reports,          \* how many outcome reports carried a new body
  reReports,        \* how many reports repeated an earlier body
  lastCall,         \* the outcome report made in the last step and getStatus().bufferSize around it
  analyzeResp,      \* the response the POST analyze route sent in the last step
  \* ---- the documented Python service: SelfLearningSystem and POST /predict
  mlModel,          \* SelfLearningSystem.model: the version of the active model
  current_accuracy, \* SelfLearningSystem.current_accuracy (hundredths)
  modelAccuracy,    \* the accuracy measured for each model version
  savedModel,       \* what save_model persisted last
  retrainPc,        \* where retrain_model stands: "idle", "fetch" or "save"
  lastRetrain,      \* history: the last promote-or-discard decision
  redis,            \* the cache: key -> << >> or <<cached result>>
  req,              \* the predict requests in flight: client -> << >> or <<key>>
  served,           \* the last response each client got
  \* ---- POST /api/train and its rate limiter
  trainingRequests, \* the Map userId -> time of the last admitted request
  now,              \* Date.now(), in milliseconds
  admitted,         \* history: userId -> the times at which requests were admitted
  trainResp,        \* the last response of POST /api/train
  \* ---- POST /api/predict (app/api/predict/route.ts)
  predictReq,       \* the requests awaiting the Python API: caller -> << >> or <<body>>
  predictResp,      \* the last response each caller got
  \* ---- POST /api/upload (app/api/upload/route.ts)
  uploadSent,       \* the matches of the last request to the Python API: << >> or <<matches>>
  uploadResp,       \* the last response of POST /api/upload
  \* ---- middleware.ts
  mwLast,           \* the last request the server got and what the middleware made of it
  \* ---- predictions/page.tsx and the feature engineering of ARCHITECTURE.md
  pageHomeTeam,     \* the page's homeTeam state, "" before a selection
  pageAwayTeam,     \* the page's awayTeam state
  pageFeatures,     \* the page's features state (the head-to-head counts)
  pageSent,         \* what the last click on Predict did
  h2hFactor,        \* the last head-to-head factor the service computed
  \* ---- monitoring of the active model
  measured,         \* the last accuracy measured for the active model
  \* ---- the route handlers that call the Python API with the API key
  apiLast,          \* the last handler call and its response
  upstreamLog,      \* the requests sent to the Python API, in order
  \* ---- components/TrainingControl.tsx
  isTraining,       \* the component's isTraining state
  progress,         \* its progress state, 0..100
  currentPhase,     \* its currentPhase state
  logs,             \* its logs state
  eventSource,      \* its eventSource state: "null", or the stream, "open" or "closed"
  trainingMode,     \* its trainingMode state
  startPending,     \* the calls of startTraining that await their POST
  completeCalls,    \* history: the calls of onTrainingComplete since the last start
  trainingRuns      \* history: the number of starts so far

bufVars == <<analysisBuffer, geminiModel, drains, inflight, hung, lastAnalysis, nextSeq,
             lastInput, reports, reReports, lastCall, analyzeResp>>

serveVars == <<mlModel, current_accuracy, modelAccuracy, savedModel, retrainPc,
               lastRetrain, redis, req, served>>

trainVars == <<trainingRequests, now, admitted, trainResp>>

predictVars == <<predictReq, predictResp>>

uploadVars == <<uploadSent, uploadResp>>

h2hVars == <<pageHomeTeam, pageAwayTeam, pageFeatures, pageSent, h2hFactor>>
apiVars == <<apiLast, upstreamLog>>
tcVars == <<isTraining, progress, currentPhase, logs, eventSource, trainingMode,
            startPending, completeCalls, trainingRuns>>
vars == <<bufVars, serveVars, trainVars, predictVars, uploadVars, mwLast, h2hVars,
          measured, apiVars, tcVars>>

\* a step of one part leaves the others alone
OnlyBuffer == UNCHANGED <<tcVars, apiVars, measured, h2hVars, serveVars, trainVars, predictVars, uploadVars, mwLast>>
OnlyServe == UNCHANGED <<tcVars, apiVars, measured, h2hVars, bufVars, trainVars, predictVars, uploadVars, mwLast>>
OnlyTrain == UNCHANGED <<tcVars, apiVars, measured, h2hVars, bufVars, serveVars, predictVars, uploadVars, mwLast>>
OnlyPredict == UNCHANGED <<tcVars, apiVars, measured, h2hVars, bufVars, serveVars, trainVars, uploadVars, mwLast>>
OnlyMiddleware == UNCHANGED <<tcVars, apiVars, measured, bufVars, serveVars, trainVars, predictVars, uploadVars, h2hVars>>
OnlyH2h == UNCHANGED <<tcVars, apiVars, measured, bufVars, serveVars, trainVars, predictVars, uploadVars, mwLast>>
OnlyApi ==
  UNCHANGED <<tcVars, bufVars, serveVars, trainVars, predictVars, uploadVars, mwLast, h2hVars,
              measured>>
OnlyTraining ==
  UNCHANGED <<bufVars, serveVars, trainVars, predictVars, uploadVars, mwLast, h2hVars,
              measured, apiVars>>
OnlyUpload == UNCHANGED <<tcVars, apiVars, measured, h2hVars, bufVars, serveVars, trainVars, predictVars, mwLast>>

----------------------------------------------------------------------------
(* Bounds of the model *)

MaxAppends == 195
MaxReports == 1
MaxReReports == 1
Prefill == 98

----------------------------------------------------------------------------
(* Numbers *)

RECURSIVE GCD(_, _)
GCD(a, b) == IF b = 0 THEN a ELSE GCD(b, a % b)

\* x / y for integers x >= 0, y > 0, as an exact fraction in lowest terms
Div(x, y) == LET g == GCD(x, y) IN <<x \div g, y \div g>>

FracAdd(p, q) == Div(p[1] * q[2] + q[1] * p[2], p[2] * q[2])
FracGt(p, q) == p[1] * q[2] > q[1] * p[2]

\* a - b where either may be undefined
Sub(a, b) == {x - y : x \in a, y \in b}
\* d > c, false when d is NaN
Gt(d, c) == \E x \in d : x > c
Lt(d, c) == \E x \in d : x < c

Outcomes == <<"H", "D", "A">>

----------------------------------------------------------------------------
(* generatePrediction: the local predictor of both predict routes *)

Boost(cond, amount) == IF cond THEN amount ELSE 0

\* the boosts of the home side credited to the away side and the reverse
RawProbsBoostsOtherSide(features) ==
  LET shotDiff == Sub(features.home_shots_on_target, features.away_shots_on_target)
      eloDiff == Sub(features.home_elo, features.away_elo)
      formDiff == Sub(features.home_form, features.away_form)
  IN [home |-> 43 + Boost(Lt(shotDiff, -2), 15) + Boost(Lt(eloDiff, -100), 10)
                  + Boost(Lt(formDiff, -3), 5),
      draw |-> 26,
      away |-> 31 + Boost(Gt(shotDiff, 2), 15) + Boost(Gt(eloDiff, 100), 10)
                  + Boost(Gt(formDiff, 3), 5)]

\* the probabilities before normalisation, in hundredths
RawProbs(features) ==
  LET shotDiff == Sub(features.home_shots_on_target, features.away_shots_on_target)
      eloDiff == Sub(features.home_elo, features.away_elo)
      formDiff == Sub(features.home_form, features.away_form)
  IN [home |-> 43 + Boost(Gt(shotDiff, 2), 15) + Boost(Gt(eloDiff, 100), 10)
                  + Boost(Gt(formDiff, 3), 5),
      draw |-> 26,
      away |-> 31 + Boost(Lt(shotDiff, -2), 15) + Boost(Lt(eloDiff, -100), 10)
                  + Boost(Lt(formDiff, -3), 5)]

\* const total = homeProb + drawProb + awayProb; each probability /= total
NormalizeSkipsDraw(raw) ==
  LET total == raw.home + raw.away
  IN [home |-> Div(raw.home, total), draw |-> Div(raw.draw, total),
      away |-> Div(raw.away, total)]

Normalize(raw) ==
  LET total == raw.home + raw.draw + raw.away
  IN [home |-> Div(raw.home, total), draw |-> Div(raw.draw, total),
      away |-> Div(raw.away, total)]

\* a predictor that hedges towards the draw while other requests are under way
generatePredictionUnderLoad(features) ==
  LET raw == RawProbs(features)
      busy == Cardinality({c \in DOMAIN predictReq : predictReq[c] # << >>}) > 1
      p == Normalize(IF busy THEN [raw EXCEPT !.draw = 100] ELSE raw)
  IN IF FracGt(p.draw, p.home) /\ FracGt(p.draw, p.away)
       THEN [result |-> "D", confidence |-> p.draw, probabilities |-> p]
     ELSE IF FracGt(p.away, p.home)
       THEN [result |-> "A", confidence |-> p.away, probabilities |-> p]
     ELSE [result |-> "H", confidence |-> p.home, probabilities |-> p]

generatePrediction(features) ==
  LET p == Normalize(RawProbs(features))
  IN IF FracGt(p.draw, p.home) /\ FracGt(p.draw, p.away)
       THEN [result |-> "D", confidence |-> p.draw, probabilities |-> p]
     ELSE IF FracGt(p.away, p.home)
       THEN [result |-> "A", confidence |-> p.away, probabilities |-> p]
     ELSE [result |-> "H", confidence |-> p.home, probabilities |-> p]

----------------------------------------------------------------------------
(* Inputs *)

\* the request bodies of the outcome reports, taken in turn
ReportInputs ==
  << [home_shots_on_target |-> {6}, away_shots_on_target |-> {2}, home_elo |-> {1600},
      away_elo |-> {1400}, home_form |-> {8}, away_form |-> {3}],
     [home_shots_on_target |-> {0}, away_shots_on_target |-> {6}, home_elo |-> {1400},
      away_elo |-> {1600}, home_form |-> {3}, away_form |-> {8}],
     [home_shots_on_target |-> {}, away_shots_on_target |-> {}, home_elo |-> {},
      away_elo |-> {}, home_form |-> {6}, away_form |-> {6}],
     [home_shots_on_target |-> {3}, away_shots_on_target |-> {0}, home_elo |-> {1500},
      away_elo |-> {1500}, home_form |-> {6}, away_form |-> {3}] >>

\* the s-th outcome report: features with matchId and actualResult
ReportInput(s) ==
  [features |-> ReportInputs[(s % Len(ReportInputs)) + 1],
   matchId |-> s,
   actualResult |-> Outcomes[((s \div 2) % 3) + 1]]

\* the s-th record a client posts to the analyze route; the client fills in
\* the correct flag, and in every tenth record it contradicts the two outcomes;
\* features: whether the record carries a features object
ClientRecord(s, withFeatures) ==
  [seq |-> s, matchId |-> s, features |-> withFeatures,
   predicted |-> Outcomes[(s % 3) + 1],
   actual |-> Outcomes[((s \div 2) % 3) + 1],
   confidence |-> Div(50 + 10 * (s % 4), 100),
   correct |-> IF s % 10 = 0 THEN (s % 3) # ((s \div 2) % 3)
               ELSE (s % 3) = ((s \div 2) % 3)]

ClientBatch(first, k, withFeatures) ==
  [i \in 1..k |-> ClientRecord(first + i - 1, withFeatures)]

BUFFER_SIZE == 100

\* sizes of the bodies posted to the analyze route
BatchSizes == {BUFFER_SIZE - 11, BUFFER_SIZE - 10, BUFFER_SIZE}

\* the arrays posted to the analyze route: well-formed records in each size,
\* and one array of records without a features object
AnalyzeBodies ==
  {[k |-> k, withFeatures |-> TRUE] : k \in BatchSizes}
  \cup {[k |-> BUFFER_SIZE - 10, withFeatures |-> FALSE]}

\* the bodies the analyze route does not get an array from: JSON without a
\* predictions array, and text that request.json() cannot parse
BadAnalyzeBodies == {"no array", "no JSON"}

----------------------------------------------------------------------------
(* GeminiClient.generateSuggestions: the advisory reply and what is made of it *)

\* a reply text is a sequence of tokens: "[" and "]", a word outside JSON, or
\* a JSON value (v: its place in JsonValues)
Open == [t |-> "[", v |-> 0]
Close == [t |-> "]", v |-> 0]
Word == [t |-> "word", v |-> 0]
Value(v) == [t |-> "value", v |-> v]

\* JSON values a reply can hold: the three suggestions the prompt asks for, an
\* object with another type, an object without the typed fields, a bare string
JsonValues ==
  << [isObject |-> TRUE, type |-> "weight_adjustment", typedFields |-> TRUE],
     [isObject |-> TRUE, type |-> "new_feature", typedFields |-> TRUE],
     [isObject |-> TRUE, type |-> "temporal_change", typedFields |-> TRUE],
     [isObject |-> TRUE, type |-> "rewrite_model", typedFields |-> TRUE],
     [isObject |-> TRUE, type |-> "new_feature", typedFields |-> FALSE],
     [isObject |-> FALSE, type |-> "", typedFields |-> FALSE] >>

ReplyTexts ==
  { <<Word, Word>>,
    <<Word, Open, Value(1), Value(2), Value(3), Close, Word>>,
    <<Open, Word, Close, Word, Open, Value(1), Close>>,
    <<Open, Value(4), Value(5), Value(6), Close>> }

NoReply == [rejects |-> FALSE, text |-> << >>]

\* how generateContent settles: it rejects, or resolves with a text
AdvisoryReplies ==
  {[rejects |-> TRUE, text |-> << >>]} \cup {[rejects |-> FALSE, text |-> t] : t \in ReplyTexts}

\* text.match(/\[[\s\S]*\]/): from the first "[" to the last "]", << >> without a match
JsonMatch(text) ==
  LET opens == {i \in DOMAIN text : text[i] = Open}
      first == CHOOSE i \in opens : \A j \in opens : i <= j
      closes == {i \in DOMAIN text : text[i] = Close /\ i > first}
      last == CHOOSE i \in closes : \A j \in closes : i >= j
  IN IF opens = {} THEN << >>
     ELSE IF closes = {} THEN << >>
     ELSE SubSeq(text, first, last)

\* JSON.parse of a match: [ok, value]; it throws unless the brackets hold values only
JsonParse(match) ==
  LET inner == SubSeq(match, 2, Len(match) - 1)
  IN IF \A i \in DOMAIN inner : inner[i].t = "value"
       THEN [ok |-> TRUE, value |-> [i \in DOMAIN inner |-> JsonValues[inner[i].v]]]
       ELSE [ok |-> FALSE, value |-> << >>]

\* generateSuggestions with a model: the parsed array as it is, [] when the call
\* or the parse throws or nothing matches
generateSuggestions(reply) ==
  IF ~geminiModel THEN << >>
  ELSE IF reply.rejects THEN << >>
  ELSE LET jsonMatch == JsonMatch(reply.text)
       IN IF jsonMatch = << >> THEN << >>
          ELSE IF JsonParse(jsonMatch).ok THEN JsonParse(jsonMatch).value
          ELSE << >>

----------------------------------------------------------------------------
(* GeminiClient *)

\* predictions.filter(P).length
CountIf(s, P(_)) == Cardinality({i \in DOMAIN s : P(s[i])})

identifyPatterns(predictions) ==
  LET HighConf(p) == ~p.correct /\ FracGt(p.confidence, <<7, 10>>)
  IN [highConfidenceFailures |-> CountIf(predictions, HighConf)]

\* the part of analyzePerformance that runs before its first await: copy the
\* buffer, clear it, compute accuracy and patterns.
\* st = [buf, drains, inflight, returned, threw]; by is the caller.
\* identifyPatterns reads p.features.shot_diff of every misprediction: a
\* misprediction without a features object makes it throw, after the buffer
\* was cleared, and the promise of analyzePerformance rejects.
\* Without an advisory call nothing is awaited inside, and the AnalysisResult is
\* returned before any other handler runs.
AnalysisResult(d, advised, reply, accuracy, patterns, suggestions) ==
  [drain |-> d, advised |-> advised, reply |-> reply, accuracy |-> accuracy,
   patterns |-> patterns, suggestions |-> suggestions]

analyzePerformanceKeepsLast(st, by) ==
  [buf |-> <<st.buf[Len(st.buf)]>>,
   drains |-> Append(st.drains,
                     [batch |-> st.buf, by |-> by, accuracy |-> <<0, Len(st.buf)>>,
                      patterns |-> [highConfidenceFailures |-> 0], advised |-> FALSE,
                      threw |-> FALSE]),
   inflight |-> st.inflight,
   returned |-> st.returned,
   threw |-> FALSE]

analyzePerformance(st, by) ==
  LET predictions == st.buf
      IsCorrect(p) == p.correct
      correct == CountIf(predictions, IsCorrect)
      patterns == identifyPatterns(predictions)
      throws == \E i \in DOMAIN predictions :
                  ~predictions[i].correct /\ ~predictions[i].features
      awaitsGemini == ~throws /\ geminiModel /\ patterns.highConfidenceFailures > 5
  IN [buf |-> << >>,
      drains |-> Append(st.drains,
                        [batch |-> predictions, by |-> by,
                         accuracy |-> <<correct, Len(predictions)>>,
                         patterns |-> patterns, advised |-> awaitsGemini,
                         threw |-> throws]),
      inflight |-> IF awaitsGemini
                     THEN st.inflight \cup {Len(st.drains) + 1}
                     ELSE st.inflight,
      returned |-> IF awaitsGemini \/ throws THEN st.returned
                   ELSE <<AnalysisResult(Len(st.drains) + 1, FALSE, NoReply,
                                         <<correct, Len(predictions)>>, patterns, << >>)>>,
      threw |-> throws]

\* addPrediction draining only once the buffer has grown beyond BUFFER_SIZE
addPredictionDrainsAbove(st, prediction) ==
  LET pushed == [st EXCEPT !.buf = Append(st.buf, prediction)]
  IN IF Len(pushed.buf) > BUFFER_SIZE
       THEN [analyzePerformance(pushed, "addPrediction") EXCEPT !.threw = st.threw]
       ELSE pushed

\* the promise of the analysis it starts is dropped, a rejection included
addPrediction(st, prediction) ==
  LET pushed == [st EXCEPT !.buf = Append(st.buf, prediction)]
  IN IF Len(pushed.buf) >= BUFFER_SIZE
       THEN [analyzePerformance(pushed, "addPrediction") EXCEPT !.threw = st.threw]
       ELSE pushed

getStatus(buf) == [bufferSize |-> Len(buf), bufferCapacity |-> BUFFER_SIZE]

RECURSIVE AddAll(_, _)
\* predictions.forEach(pred => geminiClient.addPrediction(pred)).
\* The leading pushes that leave the buffer below BUFFER_SIZE are taken
\* together; the first push that can fill it goes through addPrediction, and
\* the loop goes on with the rest.
AddAll(st, predictions) ==
  IF predictions = << >> THEN st
  ELSE LET room == BUFFER_SIZE - 1 - Len(st.buf)
           quiet == IF room < 0 THEN 0
                    ELSE IF room > Len(predictions) THEN Len(predictions)
                    ELSE room
           pushed == [st EXCEPT !.buf = st.buf \o SubSeq(predictions, 1, quiet)]
       IN IF quiet = Len(predictions) THEN pushed
          ELSE AddAll(addPrediction(pushed, predictions[quiet + 1]),
                      SubSeq(predictions, quiet + 2, Len(predictions)))

ClientState ==
  [buf |-> analysisBuffer, drains |-> drains, inflight |-> inflight, returned |-> << >>,
   threw |-> FALSE]

SetClient(st) ==
  /\ analysisBuffer' = st.buf
  /\ drains' = st.drains
  /\ inflight' = st.inflight
  /\ lastAnalysis' = st.returned

----------------------------------------------------------------------------
(* Dashboard predict route: POST, with the outcome report *)

NoCall == [reported |-> FALSE, repeated |-> FALSE, before |-> 0, after |-> 0]

\* no response of the analyze route in this step
NoAnalyzeResp == [status |-> 0, message |-> "", drain |-> 0, bufferSize |-> 0]

\* a request that is answered before the buffer is touched: teams missing (400)
\* or the database insert failing (500), or a body without features.actualResult
DashPredictNoReport ==
  /\ OnlyBuffer
  /\ lastCall' = NoCall
  /\ analyzeResp' = NoAnalyzeResp
  /\ lastAnalysis' = << >>
  /\ UNCHANGED <<analysisBuffer, geminiModel, drains, inflight, hung, nextSeq, lastInput,
                 reports, reReports>>

\* the record the route hands to addPrediction (seq: the number of the append)
ReportRecord(input, seq) ==
  LET predictions == generatePrediction(input.features)
  IN [seq |-> seq,
      matchId |-> input.matchId,
      features |-> TRUE,
      predicted |-> predictions.result,
      actual |-> input.actualResult,
      confidence |-> predictions.confidence,
      correct |-> predictions.result = input.actualResult]

Report(input, repeated) ==
  LET st == addPrediction(ClientState, ReportRecord(input, nextSeq))
  IN /\ nextSeq <= MaxAppends
     /\ SetClient(st)
     /\ nextSeq' = nextSeq + 1
     /\ lastInput' = <<input>>
     /\ lastCall' = [reported |-> TRUE, repeated |-> repeated,
                     before |-> getStatus(analysisBuffer).bufferSize,
                     after |-> getStatus(st.buf).bufferSize]
     /\ analyzeResp' = NoAnalyzeResp
     /\ UNCHANGED <<geminiModel, hung>>

DashPredictReport ==
  /\ OnlyBuffer
  /\ reports < MaxReports
  /\ Report(ReportInput(nextSeq), FALSE)
  /\ reports' = reports + 1
  /\ UNCHANGED reReports

\* the same body is posted again
DashPredictReReport ==
  /\ OnlyBuffer
  /\ lastInput # << >>
  /\ reReports < MaxReReports
  /\ Report(lastInput[1], TRUE)
  /\ reReports' = reReports + 1
  /\ UNCHANGED reports

----------------------------------------------------------------------------
(* POST analyze route *)

\* the body gives no array: 400 when it parses but holds no predictions array,
\* 500 from the catch block when request.json() throws
AnalyzeInvalid(body) ==
  /\ OnlyBuffer
  /\ analyzeResp' = IF body = "no JSON"
                      THEN [status |-> 500, message |-> "Analysis failed",
                            drain |-> 0, bufferSize |-> 0]
                    ELSE [status |-> 400, message |-> "Invalid predictions data",
                          drain |-> 0, bufferSize |-> 0]
  /\ lastCall' = NoCall
  /\ lastAnalysis' = << >>
  /\ UNCHANGED <<analysisBuffer, geminiModel, drains, inflight, hung, nextSeq, lastInput,
                 reports, reReports>>

\* from the forEach to the await: one uninterrupted run of the handler. With an
\* advisory call under way the response waits for AnalysisReturns; when the
\* awaited analysis throws, the catch block answers 500.
AnalyzePost(k, withFeatures) ==
  LET added == AddAll(ClientState, ClientBatch(nextSeq, k, withFeatures))
      status == getStatus(added.buf)
      triggers == status.bufferSize * 10 >= status.bufferCapacity * 9
      st == IF triggers THEN analyzePerformance(added, "route") ELSE added
  IN /\ OnlyBuffer
     /\ nextSeq + k - 1 <= MaxAppends
     /\ SetClient(st)
     /\ nextSeq' = nextSeq + k
     /\ analyzeResp' =
          IF triggers /\ st.threw
            THEN [status |-> 500, message |-> "Analysis failed", drain |-> 0,
                  bufferSize |-> 0]
          ELSE IF triggers /\ Len(st.drains) \in st.inflight
            THEN NoAnalyzeResp
          ELSE IF triggers
            THEN [status |-> 200, message |-> "Analysis completed",
                  drain |-> Len(st.drains), bufferSize |-> status.bufferSize]
          ELSE [status |-> 200, message |-> "Predictions added to buffer",
                drain |-> 0, bufferSize |-> status.bufferSize]
     /\ lastCall' = NoCall
     /\ UNCHANGED <<geminiModel, hung, lastInput, reports, reReports>>

\* a suspended analyzePerformance resumes and returns: the advisory call
\* settled with the reply; the route that awaited it answers, addPrediction's
\* caller has long returned and the result is dropped
AnalysisReturns(d, reply) ==
  /\ OnlyBuffer
  /\ d \in inflight
  /\ inflight' = inflight \ {d}
  /\ lastAnalysis' = <<AnalysisResult(d, TRUE, reply, drains[d].accuracy,
                                       drains[d].patterns, generateSuggestions(reply))>>
  /\ analyzeResp' =
       IF drains[d].by = "route"
         THEN [status |-> 200, message |-> "Analysis completed", drain |-> d,
               bufferSize |-> Len(drains[d].batch)]
         ELSE NoAnalyzeResp
  /\ lastCall' = NoCall
  /\ UNCHANGED <<analysisBuffer, geminiModel, drains, hung, nextSeq, lastInput, reports,
                 reReports>>

\* the generateContent call of an analysis neither resolves nor rejects: the
\* await at it has no timer beside it, the analysis stays suspended
AdvisoryHangs(d) ==
  /\ OnlyBuffer
  /\ d \in inflight
  /\ inflight' = inflight \ {d}
  /\ hung' = hung \cup {d}
  /\ lastAnalysis' = << >>
  /\ lastCall' = NoCall
  /\ analyzeResp' = NoAnalyzeResp
  /\ UNCHANGED <<analysisBuffer, geminiModel, drains, nextSeq, lastInput, reports,
                 reReports>>

----------------------------------------------------------------------------
(* The documented Python service (ARCHITECTURE.md): SelfLearningSystem and
   POST /predict behind the Redis cache *)

MaxModels == 2
NumClients == 2

Accuracies == {70, 72, 73, 75}
Keys == {"Arsenal:Chelsea:2025-01-15"}
Clients == 1..NumClients

NoDecision == [ran |-> FALSE, candidate |-> 0, incumbent |-> 0, promoted |-> FALSE]

\* retrain_model up to its first await: the query for the recent matches is sent
RetrainStart ==
  /\ OnlyServe
  /\ retrainPc = "idle"
  /\ Len(modelAccuracy) < MaxModels + 1
  /\ retrainPc' = "fetch"
  /\ UNCHANGED <<mlModel, current_accuracy, modelAccuracy, savedModel, lastRetrain,
                 redis, req, served>>

\* if new_model.accuracy > self.current_accuracy
Improves(accuracy) == accuracy > current_accuracy

\* the data arrived: fit the new model, test its accuracy, swap if it improves
RetrainEvaluate(accuracy) ==
  /\ OnlyServe
  /\ retrainPc = "fetch"
  /\ lastRetrain' = [ran |-> TRUE, candidate |-> accuracy,
                     incumbent |-> modelAccuracy[mlModel],
                     promoted |-> Improves(accuracy)]
  /\ IF Improves(accuracy)
       THEN /\ modelAccuracy' = Append(modelAccuracy, accuracy)
            /\ mlModel' = Len(modelAccuracy) + 1
            /\ retrainPc' = "save"
       ELSE /\ retrainPc' = "idle"
            /\ UNCHANGED <<modelAccuracy, mlModel>>
  /\ UNCHANGED <<current_accuracy, savedModel, redis, req, served>>

\* await self.save_model(): the swapped-in model and its accuracy are persisted
RetrainSaved ==
  /\ OnlyServe
  /\ retrainPc = "save"
  /\ savedModel' = [version |-> mlModel, accuracy |-> modelAccuracy[mlModel]]
  /\ retrainPc' = "idle"
  /\ UNCHANGED <<mlModel, current_accuracy, modelAccuracy, lastRetrain, redis, req,
                 served>>

\* model.predict(features) under model version v for the match of a key, and
\* the result dictionary built from it
PredictResult(v, key) == [prediction |-> <<v, key>>, features_used |-> 5]

\* POST /predict up to its first await: a cache hit is answered at once, a miss
\* goes on to fetch the match features
PredictStart(c, key) ==
  /\ OnlyServe
  /\ req[c] = << >>
  /\ IF redis[key] # << >>
       THEN /\ served' = [served EXCEPT ![c] =
                           <<[key |-> key, result |-> redis[key][1], cached |-> TRUE,
                              active |-> mlModel]>>]
            /\ UNCHANGED req
       ELSE /\ req' = [req EXCEPT ![c] = <<key>>]
            /\ served' = [served EXCEPT ![c] = << >>]
  /\ UNCHANGED <<mlModel, current_accuracy, modelAccuracy, savedModel, retrainPc,
                 lastRetrain, redis>>

\* the features arrived: predict with the active model, cache for an hour, answer
PredictFinish(c) ==
  /\ OnlyServe
  /\ req[c] # << >>
  /\ LET key == req[c][1]
         result == PredictResult(mlModel, key)
     IN /\ redis' = [redis EXCEPT ![key] = <<result>>]
        /\ served' = [served EXCEPT ![c] =
                        <<[key |-> key, result |-> result, cached |-> FALSE,
                           active |-> mlModel]>>]
  /\ req' = [req EXCEPT ![c] = << >>]
  /\ UNCHANGED <<mlModel, current_accuracy, modelAccuracy, savedModel, retrainPc,
                 lastRetrain>>

\* redis.setex(cache_key, 3600, ...): the hour is over
CacheExpire(key) ==
  /\ OnlyServe
  /\ redis[key] # << >>
  /\ redis' = [redis EXCEPT ![key] = << >>]
  /\ UNCHANGED <<mlModel, current_accuracy, modelAccuracy, savedModel, retrainPc,
                 lastRetrain, req, served>>

InitServe ==
  /\ mlModel = 1
  /\ current_accuracy = 72
  /\ modelAccuracy = <<72>>
  /\ savedModel = [version |-> 1, accuracy |-> 72]
  /\ retrainPc = "idle"
  /\ lastRetrain = NoDecision
  /\ redis = [k \in Keys |-> << >>]
  /\ req = [c \in Clients |-> << >>]
  /\ served = [c \in Clients |-> << >>]

NextServe ==
  \/ RetrainStart
  \/ \E accuracy \in Accuracies : RetrainEvaluate(accuracy)
  \/ RetrainSaved
  \/ \E c \in Clients, key \in Keys : PredictStart(c, key)
  \/ \E c \in Clients : PredictFinish(c)
  \/ \E key \in Keys : CacheExpire(key)

----------------------------------------------------------------------------
(* Monitoring: the accuracy of the active model is tracked, and an accuracy
   below 68% sets off a retraining *)

ACCURACY_FLOOR == 68

\* the accuracies a monitoring window can measure, in percent
MeasuredAccuracies == {60, 66, 70}

NotMeasured == [taken |-> FALSE, version |-> 0, accuracy |-> 0]

\* the accuracy of the active model over a fresh sample is recorded; below the
\* floor, retraining starts unless it is already under way
MeasureAccuracy(accuracy) ==
  /\ UNCHANGED <<bufVars, trainVars, predictVars, uploadVars, mwLast, h2hVars, apiVars,
                 tcVars>>
  /\ measured' = [taken |-> TRUE, version |-> mlModel, accuracy |-> accuracy]
  /\ retrainPc' = IF accuracy < ACCURACY_FLOOR /\ retrainPc = "idle"
                       /\ Len(modelAccuracy) < MaxModels + 1
                    THEN "fetch"
                  ELSE retrainPc
  /\ UNCHANGED <<mlModel, current_accuracy, modelAccuracy, savedModel, lastRetrain,
                 redis, req, served>>

InitMonitor == measured = NotMeasured

NextMonitor ==
  \/ RetrainStart
  \/ \E accuracy \in Accuracies : RetrainEvaluate(accuracy)
  \/ RetrainSaved
  \/ \E accuracy \in MeasuredAccuracies : MeasureAccuracy(accuracy)

----------------------------------------------------------------------------
(* POST /api/train: the manual training trigger and its rate limiter *)

RATE_LIMIT_WINDOW == 60 * 60 * 1000
MAX_REQUESTS_PER_WINDOW == 3

\* the clock moves in steps of twenty minutes, MaxTicks times
ClockStep == 20 * 60 * 1000
MaxTicks == 5

\* getServerSession: no session, a session without an e-mail, or a user's
Sessions == {<< >>, <<"">>, <<"ann@example.org">>, <<"bob@example.org">>}

\* session.user?.email || 'anonymous'
UserId(session) == IF session[1] = "" THEN "anonymous" ELSE session[1]

UserIds == {UserId(s) : s \in Sessions \ {<< >>}}

\* !userRequests || now - userRequests > RATE_LIMIT_WINDOW
Admits(userId) ==
  \/ userId \notin DOMAIN trainingRequests
  \/ trainingRequests[userId] = 0
  \/ now - trainingRequests[userId] > RATE_LIMIT_WINDOW

\* a limiter that notes the time of every request, refused ones included
checkRateLimitNotesRefusals(userId) ==
  [u \in DOMAIN trainingRequests \cup {userId} |->
     IF u = userId THEN now ELSE trainingRequests[u]]

\* trainingRequests after checkRateLimit(userId)
checkRateLimit(userId) ==
  IF Admits(userId)
    THEN [u \in DOMAIN trainingRequests \cup {userId} |->
            IF u = userId THEN now ELSE trainingRequests[u]]
    ELSE trainingRequests

\* how many of the user's requests were admitted in the window that ends now
AdmittedInWindow(userId) ==
  Cardinality({t \in admitted[userId] : now - t <= RATE_LIMIT_WINDOW})

\* the handler: 401 without a session, 429 when the limiter refuses, else the
\* call to the Python API, answered 200, or 500 when that call fails
TrainPost(session, upstreamOk) ==
  /\ OnlyTrain
  /\ IF session = << >>
       THEN /\ trainResp' = [status |-> 401, userId |-> "", at |-> now, before |-> 0]
            /\ UNCHANGED <<trainingRequests, admitted>>
       ELSE LET userId == UserId(session)
            IN /\ trainingRequests' = checkRateLimit(userId)
               /\ trainResp' = [status |-> IF ~Admits(userId) THEN 429
                                           ELSE IF upstreamOk THEN 200 ELSE 500,
                                userId |-> userId, at |-> now,
                                before |-> AdmittedInWindow(userId)]
               /\ admitted' = IF Admits(userId)
                                THEN [admitted EXCEPT ![userId] = @ \cup {now}]
                                ELSE admitted
  /\ UNCHANGED now

Tick ==
  /\ OnlyTrain
  /\ now < (MaxTicks + 1) * ClockStep
  /\ now' = now + ClockStep
  /\ UNCHANGED <<trainingRequests, admitted, trainResp>>

InitTrain ==
  /\ trainingRequests = << >>
  /\ now = ClockStep
  /\ admitted = [u \in UserIds |-> {}]
  /\ trainResp = [status |-> 0, userId |-> "", at |-> 0, before |-> 0]

NextTrain ==
  \/ \E session \in Sessions, upstreamOk \in BOOLEAN : TrainPost(session, upstreamOk)
  \/ Tick

----------------------------------------------------------------------------
(* The route handlers that call the Python API with the X-API-Key header *)

MaxUpstream == 2

\* the handlers and the path of the Python API each one fetches
Handlers ==
  {"POST /api/predict", "GET /api/predict", "POST /api/train", "GET /api/train",
   "POST /api/upload", "POST /api/data/validate", "GET /api/data/export"}

UpstreamPath(handler) ==
  CASE handler = "POST /api/predict" -> "/predict"
    [] handler = "GET /api/predict" -> "/stats"
    [] handler = "POST /api/train" -> "/train"
    [] handler = "GET /api/train" -> "/training/status"
    [] handler = "POST /api/upload" -> "/data/upload"
    [] handler = "POST /api/data/validate" -> "/data/validate"
    [] handler = "GET /api/data/export" -> "/data/export"

\* the handler starts with getServerSession and returns 401 without a session
ChecksSession(handler) == handler # "GET /api/predict"

\* the status the handler returns before the fetch for a request it refuses for
\* another reason (teams or file missing, rate limit); 0 when it has no such check
RefusalStatus(handler) ==
  CASE handler \in {"POST /api/predict", "POST /api/upload"} -> 400
    [] handler = "POST /api/train" -> 429
    [] OTHER -> 0

\* the status returned when the Python API answers not OK: the predict, upload,
\* validate, export and status handlers answer from local data, the others
\* throw into their catch block
NotOkStatus(handler) ==
  IF handler \in {"GET /api/predict", "POST /api/train"} THEN 500 ELSE 200

ApiResponse(handler, session, status, upstream) ==
  [handler |-> handler, session |-> session, status |-> status, upstream |-> upstream]

\* one call of a handler: session is << >> without a session; refused says
\* that the request fails the handler's other check; outcome is what the fetch does
HandlerCall(handler, session, refused, outcome) ==
  /\ OnlyApi
  /\ IF ChecksSession(handler) /\ session = << >>
       THEN /\ apiLast' = ApiResponse(handler, session, 401, "none")
            /\ UNCHANGED upstreamLog
     ELSE IF refused /\ RefusalStatus(handler) # 0
       THEN /\ apiLast' = ApiResponse(handler, session, RefusalStatus(handler), "none")
            /\ UNCHANGED upstreamLog
     ELSE /\ Len(upstreamLog) < MaxUpstream
          /\ upstreamLog' = Append(upstreamLog, [path |-> UpstreamPath(handler),
                                                 apiKey |-> TRUE, session |-> session])
          /\ apiLast' = ApiResponse(handler, session,
                                    IF outcome = "rejects" THEN 500
                                    ELSE IF outcome = "not ok" THEN NotOkStatus(handler)
                                    ELSE 200,
                                    outcome)

InitApi ==
  /\ apiLast = ApiResponse("", << >>, 0, "none")
  /\ upstreamLog = << >>

NextApi ==
  \E handler \in Handlers, session \in Sessions, refused \in BOOLEAN,
     outcome \in {"ok", "not ok", "rejects"} :
    HandlerCall(handler, session, refused, outcome)

----------------------------------------------------------------------------
(* POST /api/predict: the Python API first, the local predictor as fallback *)

NumCallers == 2
Callers == 1..NumCallers

ShotPairs == {<<{}, {}>>, <<{6}, {2}>>, <<{2}, {6}>>, <<{3}, {0}>>, <<{2}, {0}>>}
EloPairs == {<<{}, {}>>, <<{1600}, {1400}>>, <<{1400}, {1600}>>, <<{1500}, {1400}>>}
FormPairs == {<<{8}, {3}>>, <<{3}, {8}>>, <<{6}, {3}>>}

\* the features objects of the request bodies
FeatureInputs ==
  {[home_shots_on_target |-> s[1], away_shots_on_target |-> s[2],
    home_elo |-> e[1], away_elo |-> e[2],
    home_form |-> f[1], away_form |-> f[2]] :
     s \in ShotPairs, e \in EloPairs, f \in FormPairs}

Body(session, homeTeam, awayTeam, features) ==
  [session |-> session, homeTeam |-> homeTeam, awayTeam |-> awayTeam,
   features |-> features]

\* the request bodies; features: << >> when the body carries none, else <<the object>>
Bodies ==
  {Body(TRUE, "Arsenal", "Chelsea", <<f>>) : f \in FeatureInputs}
  \cup {Body(TRUE, "Arsenal", "Chelsea", << >>),
        Body(TRUE, "Arsenal", "Arsenal", <<ReportInputs[1]>>),
        Body(TRUE, "", "Chelsea", <<ReportInputs[1]>>),
        Body(TRUE, "Arsenal", "", <<ReportInputs[1]>>),
        Body(FALSE, "Arsenal", "Chelsea", <<ReportInputs[1]>>)}

\* what the Python API returns for a body when it answers OK
UpstreamData(body) ==
  [result |-> "upstream", confidence |-> "upstream", probabilities |-> "upstream"]

ErrorResponse(status, error, body, upstream) ==
  [status |-> status, error |-> error, prediction |-> << >>, source |-> "",
   body |-> body, upstream |-> upstream]

\* if (!response.ok): the local prediction stands in for the Python API's
UsesFallbackNever(outcome) == FALSE

UsesFallback(outcome) == outcome = "not ok"

\* the responses a new request leaves in view: those of the requests it overlaps
\* (with no request under way the earlier responses are forgotten)
InView(c) ==
  IF \A d \in Callers : predictReq[d] = << >>
    THEN [d \in Callers |-> << >>]
    ELSE predictResp

\* the handler up to the fetch: 401 without a session, 400 without both teams,
\* otherwise the request to the Python API is under way.
\* Requests that overlap carry the same body.
PredictPostStart(c, body) ==
  /\ OnlyPredict
  /\ predictReq[c] = << >>
  /\ \A d \in Callers \ {c} : predictReq[d] = << >> \/ predictReq[d] = <<body>>
  /\ IF ~body.session
       THEN /\ predictResp' = [InView(c) EXCEPT ![c] =
                                 <<ErrorResponse(401, "Unauthorized", body, "none")>>]
            /\ UNCHANGED predictReq
     ELSE IF body.homeTeam = "" \/ body.awayTeam = ""
       THEN /\ predictResp' = [InView(c) EXCEPT ![c] =
                                 <<ErrorResponse(400, "Missing team information", body, "none")>>]
            /\ UNCHANGED predictReq
     ELSE /\ predictReq' = [predictReq EXCEPT ![c] = <<body>>]
          /\ predictResp' = [InView(c) EXCEPT ![c] = << >>]

\* the fetch settles: it answers OK, answers not OK, or fails (the promise rejects);
\* whatever throws inside the handler ends in the catch block's 500
PredictPostSettle(c, outcome) ==
  /\ OnlyPredict
  /\ predictReq[c] # << >>
  /\ LET body == predictReq[c][1]
     IN predictResp' = [predictResp EXCEPT ![c] =
          IF outcome = "rejects"
            THEN <<ErrorResponse(500, "Prediction failed", body, outcome)>>
          ELSE IF UsesFallback(outcome)
            THEN IF body.features = << >>
                   THEN <<ErrorResponse(500, "Prediction failed", body, outcome)>>
                   ELSE <<[status |-> 200, error |-> "",
                           prediction |-> <<generatePrediction(body.features[1])>>,
                           source |-> "fallback", body |-> body, upstream |-> outcome]>>
          ELSE <<[status |-> 200, error |-> "",
                  prediction |-> <<UpstreamData(body)>>,
                  source |-> "railway-api", body |-> body, upstream |-> outcome]>>]
  /\ predictReq' = [predictReq EXCEPT ![c] = << >>]

InitPredict ==
  /\ predictReq = [c \in Callers |-> << >>]
  /\ predictResp = [c \in Callers |-> << >>]

NextPredict ==
  \/ \E c \in Callers, body \in Bodies : PredictPostStart(c, body)
  \/ \E c \in Callers, outcome \in {"ok", "not ok", "rejects"} : PredictPostSettle(c, outcome)

----------------------------------------------------------------------------
(* POST /api/upload: parse the file, drop the fabricated records, forward *)

\* a field of a match: missing, a JSON number, or a string (every CSV cell is one)
Undef == [t |-> "undefined", n |-> 0, s |-> ""]
Num(n) == [t |-> "number", n |-> n, s |-> ""]
Str(s) == [t |-> "string", n |-> 0, s |-> s]

\* value || '0': undefined, 0 and '' are falsy
OrZero(v) == IF v = Undef \/ v = Num(0) \/ v = Str("") THEN Str("0") ELSE v

\* parseInt of a string: the leading integer, NaN ({}) without one
ParseIntStr(s) ==
  CASE s = "0" -> {0}
    [] s = "1" -> {1}
    [] s = "2" -> {2}
    [] s = "3" -> {3}
    [] s = "4" -> {4}
    [] s = "-3" -> {0 - 3}
    [] s = "2.5" -> {2}
    [] s = "4.5" -> {4}
    [] s = "4.9" -> {4}
    [] OTHER -> {}

\* parseInt(v): a number is turned into its decimal string first
parseInt(v) == IF v.t = "number" THEN {v.n} ELSE ParseIntStr(v.s)

\* the number a field stands for, in tenths (what the Python API and the
\* database make of it); {} when it is missing or no number
TenthsOf(v) ==
  IF v.t = "number" THEN {10 * v.n}
  ELSE IF v.t = "undefined" THEN {}
  ELSE CASE v.s = "2.5" -> {25}
         [] v.s = "4.5" -> {45}
         [] v.s = "4.9" -> {49}
         [] OTHER -> {10 * x : x \in ParseIntStr(v.s)}

Match(hs, hg, aws, ag) ==
  [home_shots_on_target |-> hs, home_goals |-> hg,
   away_shots_on_target |-> aws, away_goals |-> ag]

\* the filter of validatedMatches, with only the home check
KeepsMatchHomeOnly(match) ==
  LET homeShotsOnTarget == parseInt(OrZero(match.home_shots_on_target))
      homeGoals == parseInt(OrZero(match.home_goals))
  IN ~(\E x \in homeShotsOnTarget, y \in homeGoals : x = y + 2)

\* the filter of validatedMatches: neither side shows shots = goals + 2
KeepsMatch(match) ==
  LET homeShotsOnTarget == parseInt(OrZero(match.home_shots_on_target))
      awayShotsOnTarget == parseInt(OrZero(match.away_shots_on_target))
      homeGoals == parseInt(OrZero(match.home_goals))
      awayGoals == parseInt(OrZero(match.away_goals))
      homeFake == \E x \in homeShotsOnTarget, y \in homeGoals : x = y + 2
      awayFake == \E x \in awayShotsOnTarget, y \in awayGoals : x = y + 2
  IN ~homeFake /\ ~awayFake

\* header.toLowerCase().replace(/ /g, '_')
NormalizeHeader(header) ==
  CASE header = "Home Shots On Target" -> "home_shots_on_target"
    [] header = "Home Goals" -> "home_goals"
    [] header = "Away Shots On Target" -> "away_shots_on_target"
    [] header = "Away Goals" -> "away_goals"
    [] header = "HST" -> "hst"
    [] OTHER -> header

\* match[key] after headers.forEach: the cell under the last header with that
\* key; undefined without such a header or when the row is too short
CsvField(headers, values, key) ==
  LET at == {i \in DOMAIN headers : NormalizeHeader(headers[i]) = key}
      index == CHOOSE i \in at : \A j \in at : i >= j
  IN IF at = {} THEN Undef
     ELSE IF index > Len(values) THEN Undef
     ELSE Str(values[index])

\* the CSV branch: one match per line after the header line
CsvMatches(headers, rows) ==
  [i \in DOMAIN rows |->
     Match(CsvField(headers, rows[i], "home_shots_on_target"),
           CsvField(headers, rows[i], "home_goals"),
           CsvField(headers, rows[i], "away_shots_on_target"),
           CsvField(headers, rows[i], "away_goals"))]

\* the files of the requests
JsonPairs ==
  { <<Num(4), Num(2)>>, <<Num(2), Num(0)>>, <<Num(3), Num(2)>>, <<Str("4"), Str("2")>>,
    <<Str("4.5"), Str("2.5")>>, <<Str("4.9"), Num(2)>>, <<Num(2), Undef>>,
    <<Str("x"), Num(2)>>, <<Undef, Undef>> }

JsonMatches == {Match(h[1], h[2], a[1], a[2]) : h \in JsonPairs, a \in JsonPairs}

JsonSeconds == {Match(Num(3), Num(2), Num(3), Num(2)), Match(Num(3), Num(2), Num(4), Num(2))}

CsvHeaders ==
  { <<"home_shots_on_target", "home_goals", "away_shots_on_target", "away_goals">>,
    <<"Home Shots On Target", "Home Goals", "Away Shots On Target", "Away Goals">>,
    <<"HST", "home_goals", "away_shots_on_target", "away_goals">> }

CsvRows ==
  { <<"4", "2", "3", "2">>, <<"3", "2", "4", "2">>, <<"3", "2", "3", "2">>,
    <<"4.5", "2.5", "3", "1">>, <<"2", "", "3", "2">>, <<"3", "2", "2">>,
    <<"x", "2", "3", "2">> }

File(name, parses, json, headers, rows) ==
  [name |-> name, parses |-> parses, json |-> json, headers |-> headers, rows |-> rows]

Files ==
  {File("matches.json", TRUE, <<m>>, << >>, << >>) : m \in JsonMatches}
  \cup {File("matches.json", TRUE, <<Match(h[1], h[2], Num(3), Num(2)), n>>, << >>, << >>) :
          h \in JsonPairs, n \in JsonSeconds}
  \cup {File("matches.csv", TRUE, << >>, h, <<r>>) : h \in CsvHeaders, r \in CsvRows}
  \cup {File("matches.csv", TRUE, << >>, h, <<r, <<"3", "2", "4", "2">> >>) :
          h \in CsvHeaders, r \in CsvRows}
  \cup {File("broken.json", FALSE, << >>, << >>, << >>),
        File("matches.txt", TRUE, << >>, << >>, << >>)}

\* formData.get('file') gave nothing
NoFile == File("", FALSE, << >>, << >>, << >>)

\* file.name.endsWith(ext)
EndsWith(name, ext) ==
  CASE ext = ".csv" -> name = "matches.csv"
    [] ext = ".json" -> name \in {"matches.json", "broken.json"}
    [] OTHER -> FALSE

\* let matches = [] ... Parse CSV or JSON
ParsedMatches(file) ==
  IF EndsWith(file.name, ".csv") THEN CsvMatches(file.headers, file.rows)
  ELSE IF EndsWith(file.name, ".json") THEN file.json
  ELSE << >>

UploadError(status, error) ==
  [status |-> status, error |-> error, matches_added |-> 0, duplicates |-> 0,
   message |-> "", uploaded |-> << >>, upstream |-> "none"]

\* the handler; upstream: the Python API answers OK, not OK, or the fetch fails
UploadPost(session, file, upstream) ==
  LET matches == ParsedMatches(file)
      validatedMatches == SelectSeq(matches, KeepsMatch)
  IN /\ OnlyUpload
     /\ IF ~session
          THEN /\ uploadResp' = UploadError(401, "Unauthorized")
               /\ uploadSent' = << >>
        ELSE IF file = NoFile
          THEN /\ uploadResp' = UploadError(400, "No file provided")
               /\ uploadSent' = << >>
        ELSE IF ~file.parses
          THEN /\ uploadResp' = UploadError(500, "Failed to process upload")
               /\ uploadSent' = << >>
        ELSE /\ uploadSent' = <<validatedMatches>>
             /\ uploadResp' =
                  IF upstream = "rejects"
                    THEN [UploadError(500, "Failed to process upload")
                            EXCEPT !.uploaded = matches, !.upstream = upstream]
                  ELSE IF upstream = "not ok"
                    THEN [status |-> 200, error |-> "",
                          matches_added |-> Len(validatedMatches),
                          duplicates |-> Len(matches) - Len(validatedMatches),
                          message |-> "Data processed locally (API unavailable)",
                          uploaded |-> matches, upstream |-> upstream]
                  ELSE [status |-> 200, error |-> "",
                        matches_added |-> Len(validatedMatches),
                        duplicates |-> 0,
                        message |-> "Upload successful",
                        uploaded |-> matches, upstream |-> upstream]

InitUpload ==
  /\ uploadSent = << >>
  /\ uploadResp = UploadError(0, "")

NextUpload ==
  \E session \in BOOLEAN, file \in Files \cup {NoFile}, upstream \in {"ok", "not ok", "rejects"} :
    UploadPost(session, file, upstream)

----------------------------------------------------------------------------
(* The head-to-head feature: makePrediction of the predictions page and
   get_h2h_factor of the feature engineering *)

MaxMeetings == 3

\* a JavaScript number: NaN, an infinity, or an exact fraction in lowest terms
\* with a positive denominator
NaN == [kind |-> "NaN", num |-> 0, den |-> 1]
Infinity(sign) == [kind |-> "Infinity", num |-> sign, den |-> 0]
Finite(num, den) ==
  LET g == GCD(IF num < 0 THEN 0 - num ELSE num, den)
  IN [kind |-> "finite", num |-> num \div g, den |-> den \div g]

\* n / d in JavaScript, for n and d integers or NaN ({})
JsDivide(n, d) ==
  IF n = {} \/ d = {} THEN NaN
  ELSE LET x == CHOOSE v \in n : TRUE
           y == CHOOSE v \in d : TRUE
       IN IF y = 0
            THEN (IF x = 0 THEN NaN ELSE Infinity(IF x > 0 THEN 1 ELSE 0 - 1))
          ELSE IF y < 0 THEN Finite(0 - x, 0 - y)
          ELSE Finite(x, y)

\* JSON.stringify of a number: NaN and the infinities become null
JsonNumber(v) == IF v.kind = "finite" THEN v ELSE [kind |-> "null", num |-> 0, den |-> 1]

\* the texts typed into the "H2H Home Wins" input
H2hTexts == {"", "0", "1", "3", "4", "2.5", "-3"}

\* the teams of the select boxes
PageTeams == {"Arsenal", "Chelsea"}

\* useState: the head-to-head counts of the features state
InitialFeatures == [h2h_home_wins |-> {3}, h2h_draws |-> {2}, h2h_away_wins |-> {1}]

NoPageSent ==
  [sent |-> FALSE, error |-> "", features |-> InitialFeatures, h2h_score |-> NaN]

NoH2hFactor == [computed |-> FALSE, last_5_h2h |-> << >>, factor |-> <<0, 1>>]

\* onChange of the two selects; the first option of each is the empty one
SetHomeTeam(team) ==
  /\ OnlyH2h
  /\ pageHomeTeam' = team
  /\ pageSent' = NoPageSent
  /\ h2hFactor' = NoH2hFactor
  /\ UNCHANGED <<pageAwayTeam, pageFeatures>>

SetAwayTeam(team) ==
  /\ OnlyH2h
  /\ pageAwayTeam' = team
  /\ pageSent' = NoPageSent
  /\ h2hFactor' = NoH2hFactor
  /\ UNCHANGED <<pageHomeTeam, pageFeatures>>

\* onChange of the "H2H Home Wins" input, the only input of the three counts
SetH2hHomeWins(text) ==
  /\ OnlyH2h
  /\ pageFeatures' = [pageFeatures EXCEPT !.h2h_home_wins = parseInt(Str(text))]
  /\ pageSent' = NoPageSent
  /\ h2hFactor' = NoH2hFactor
  /\ UNCHANGED <<pageHomeTeam, pageAwayTeam>>

\* h2h_score of makePrediction
H2hScore(f) ==
  LET wins3 == {3 * w : w \in f.h2h_home_wins}
      points == {x + d : x \in wins3, d \in f.h2h_draws}
      played == {w + d + a : w \in f.h2h_home_wins, d \in f.h2h_draws,
                             a \in f.h2h_away_wins}
  IN JsDivide(points, {3 * n : n \in played})

\* makePrediction up to the fetch
makePrediction ==
  /\ OnlyH2h
  /\ pageSent' =
       IF pageHomeTeam = "" \/ pageAwayTeam = ""
         THEN [NoPageSent EXCEPT !.error = "Please select both teams"]
       ELSE IF pageHomeTeam = pageAwayTeam
         THEN [NoPageSent EXCEPT !.error = "Teams must be different"]
       ELSE [sent |-> TRUE, error |-> "", features |-> pageFeatures,
             h2h_score |-> JsonNumber(H2hScore(pageFeatures))]
  /\ h2hFactor' = NoH2hFactor
  /\ UNCHANGED <<pageHomeTeam, pageAwayTeam, pageFeatures>>

\* the results of up to MaxMeetings last meetings
Histories == UNION {[1..n -> {"H", "D", "A"}] : n \in 0..MaxMeetings}

\* get_h2h_factor without the neutral value: home_wins / len of an empty list
\* raises ZeroDivisionError, written <<0, 0>>
get_h2h_factorNoNeutral(last_5_h2h) ==
  IF Len(last_5_h2h) = 0 THEN <<0, 0>>
  ELSE Div(Cardinality({i \in 1..Len(last_5_h2h) : last_5_h2h[i] = "H"}),
           Len(last_5_h2h))

\* get_h2h_factor(last_5_h2h), an exact fraction
get_h2h_factor(last_5_h2h) ==
  IF last_5_h2h = << >> THEN <<1, 2>>
  ELSE Div(Cardinality({i \in 1..Len(last_5_h2h) : last_5_h2h[i] = "H"}),
           Len(last_5_h2h))

\* the service computes the factor of a fixture from its last meetings
GetH2hFactor(last_5_h2h) ==
  /\ OnlyH2h
  /\ h2hFactor' = [computed |-> TRUE, last_5_h2h |-> last_5_h2h,
                   factor |-> get_h2h_factor(last_5_h2h)]
  /\ pageSent' = NoPageSent
  /\ UNCHANGED <<pageHomeTeam, pageAwayTeam, pageFeatures>>

InitH2h ==
  /\ pageHomeTeam = ""
  /\ pageAwayTeam = ""
  /\ pageFeatures = InitialFeatures
  /\ pageSent = NoPageSent
  /\ h2hFactor = NoH2hFactor

NextH2h ==
  \/ \E team \in PageTeams \cup {""} : SetHomeTeam(team)
  \/ \E team \in PageTeams \cup {""} : SetAwayTeam(team)
  \/ \E text \in H2hTexts : SetH2hHomeWins(text)
  \/ makePrediction
  \/ \E last_5_h2h \in Histories : GetH2hFactor(last_5_h2h)

----------------------------------------------------------------------------
(* middleware.ts: withAuth, its authorized callback and the matcher *)

Paths ==
  {"/", "/login", "/login/", "/login/reset", "/Login", "/api/health", "/api/health/",
   "/api/healthz", "/api/predict", "/api/train", "/api/upload", "/api/stats",
   "/api/data/validate", "/api/stripe/create-checkout", "/api/gemini/analyze",
   "/dashboard", "/data", "/training", "/predictions", "/terms", "/oddsight-landing",
   "/_next/static/chunks/main.js", "/_next/image", "/_next/data/build.json",
   "/favicon.ico", "/faviconXico", "/public/logo.png", "/publications"}

\* the session token of the request: << >> (null) or <<the decoded JWT>>
Tokens == {<< >>, <<"ann@example.org">>, <<"bob@example.org">>, <<"">>}

\* the part of the matcher's negative lookahead that the path after "/" starts
\* with, "" if none: _next/static | _next/image | favicon.ico | public
\* (the dot of favicon.ico stands for any character)
LookaheadHit(path) ==
  CASE path = "/_next/static/chunks/main.js" -> "_next/static"
    [] path = "/_next/image" -> "_next/image"
    [] path \in {"/favicon.ico", "/faviconXico"} -> "favicon.ico"
    [] path \in {"/public/logo.png", "/publications"} -> "public"
    [] OTHER -> ""

\* config.matcher: '/((?!_next/static|_next/image|favicon.ico|public).*)'
Matcher(path) == LookaheadHit(path) = ""

\* the authorized callback with every /api path let through
authorizedOpenApi(path, token) ==
  \/ path \in {"/login", "/api/health", "/api/healthz", "/api/health/", "/api/predict",
               "/api/train", "/api/upload", "/api/stats"}
  \/ token # << >>

\* callbacks.authorized({ req, token })
authorized(path, token) ==
  IF path = "/login" \/ path = "/api/health" THEN TRUE
  ELSE token # << >>

\* a request arrives: outside the matcher it is served without the middleware;
\* inside, withAuth lets it on (NextResponse.next()) when authorized says so and
\* sends it to the sign-in page otherwise
MiddlewareRequest(path, token) ==
  /\ OnlyMiddleware
  /\ mwLast' = IF ~Matcher(path)
                 THEN [path |-> path, token |-> token, handled |-> FALSE,
                       authorized |-> FALSE, outcome |-> "served"]
               ELSE [path |-> path, token |-> token, handled |-> TRUE,
                     authorized |-> authorized(path, token),
                     outcome |-> IF authorized(path, token) THEN "next" ELSE "sign-in"]

InitMiddleware ==
  mwLast = [path |-> "", token |-> << >>, handled |-> FALSE, authorized |-> FALSE,
            outcome |-> ""]

NextMiddleware == \E path \in Paths, token \in Tokens : MiddlewareRequest(path, token)

----------------------------------------------------------------------------

\* The client after construction, or after Prefill outcome reports on it
InitBuffer ==
  /\ \E warm \in {0, Prefill} :
       /\ analysisBuffer = [i \in 1..warm |-> ReportRecord(ReportInput(i), i)]
       /\ nextSeq = warm + 1
       /\ lastInput = IF warm = 0 THEN << >> ELSE <<ReportInput(warm)>>
       /\ lastCall = NoCall
  /\ geminiModel \in BOOLEAN
  /\ drains = << >>
  /\ inflight = {}
  /\ hung = {}
  /\ lastAnalysis = << >>
  /\ reports = 0
  /\ reReports = 0
  /\ analyzeResp = NoAnalyzeResp

NextBuffer ==
  \/ DashPredictNoReport
  \/ DashPredictReport
  \/ DashPredictReReport
  \/ \E body \in BadAnalyzeBodies : AnalyzeInvalid(body)
  \/ \E body \in AnalyzeBodies : AnalyzePost(body.k, body.withFeatures)
  \/ \E d \in inflight, reply \in AdvisoryReplies : AnalysisReturns(d, reply)
  \/ \E d \in inflight : AdvisoryHangs(d)

----------------------------------------------------------------------------
(* components/TrainingControl.tsx: the training panel of the dashboard      *)
(* A step is one event handler of the component together with the render   *)
(* and the effects that follow it.  The 500 ms timer of the simulated       *)
(* progress is pending exactly while isTraining holds and progress < 100,  *)
(* because the effect clears and sets it again on every change of the two. *)

\* how many times training is started, and how many log lines are kept
MaxRuns == 2
MaxLogs == 2

\* what currentPhase can hold: the text, and the match count where it has one
Phase(text) == <<text>>
ExtractingPhase(p) == <<"Extracting features...", (p * 3464) \div 100>>

\* the currentPhase the timer callback sets for the progress it closed over
SimulatedPhase(p) ==
  IF p < 20 THEN Phase("Loading data...")
  ELSE IF p < 60 THEN ExtractingPhase(p)
  ELSE IF p < 80 THEN Phase("Training model...")
  ELSE IF p < 95 THEN Phase("Validating accuracy...")
  ELSE Phase("Saving model...")

\* Math.random() * 2, in whole points
SimulatedSteps == {1}

TrainingModes == {"basic", "enhanced"}

\* the events /api/train/progress can send; 0 and "" are the falsy values a
\* missing field reads as
ServerEvents ==
  [progress : {0, 50, 99, 100}, phase : {"", "Training model..."},
   log : {"", "epoch done"}, complete : BOOLEAN]

\* the component's state as a record
Component ==
  [isTraining |-> isTraining, progress |-> progress, currentPhase |-> currentPhase,
   logs |-> logs, eventSource |-> eventSource, trainingMode |-> trainingMode]

\* the render after a handler and the simulated-progress effect: once
\* isTraining holds with progress at 100 the effect ends the run and calls
\* onTrainingComplete.  called is how often the handler itself called it and
\* before the number of calls the run had seen.
Commit(st, before, called) ==
  LET done == st.isTraining /\ st.progress >= 100 IN
  /\ isTraining' = (st.isTraining /\ ~done)
  /\ progress' = st.progress
  /\ currentPhase' = IF done THEN Phase("Training complete!") ELSE st.currentPhase
  /\ logs' = st.logs
  /\ eventSource' = st.eventSource
  /\ trainingMode' = st.trainingMode
  /\ completeCalls' = before + called + (IF done THEN 1 ELSE 0)

\* a click on one of the two start buttons, up to the await of the POST
startTraining(mode) ==
  /\ OnlyTraining
  /\ ~isTraining
  /\ trainingRuns < MaxRuns
  /\ trainingRuns' = trainingRuns + 1
  /\ startPending' = startPending + 1
  /\ Commit([Component EXCEPT !.isTraining = TRUE, !.progress = 0, !.logs = << >>,
                              !.trainingMode = mode,
                              !.currentPhase =
                                 IF mode = "enhanced"
                                   THEN Phase("Initializing enhanced pipeline...")
                                 ELSE Phase("Initializing...")],
            0, 0)

\* the POST settles: the event stream is opened, or the catch block runs.
\* Storing the new stream makes the cleanup effect close the one stored before.
StartFetchSettles(ok) ==
  /\ OnlyTraining
  /\ startPending > 0
  /\ startPending' = startPending - 1
  /\ UNCHANGED trainingRuns
  /\ IF ok
       THEN Commit([Component EXCEPT !.eventSource = "open"], completeCalls, 0)
     ELSE Commit([Component EXCEPT !.isTraining = FALSE,
                                   !.currentPhase = Phase("Error occurred during training")],
                 completeCalls, 0)

\* es.onmessage
OnMessage(data) ==
  /\ OnlyTraining
  /\ eventSource = "open"
  /\ data.log # "" => Len(logs) < MaxLogs
  /\ UNCHANGED <<startPending, trainingRuns>>
  /\ Commit([Component EXCEPT
               !.progress = IF data.progress # 0 THEN data.progress ELSE @,
               !.currentPhase = IF data.phase # "" THEN Phase(data.phase) ELSE @,
               !.logs = IF data.log # "" THEN Append(@, data.log) ELSE @,
               !.isTraining = IF data.complete THEN FALSE ELSE @,
               !.eventSource = IF data.complete THEN "closed" ELSE @],
            completeCalls, IF data.complete THEN 1 ELSE 0)

\* es.onerror
OnError ==
  /\ OnlyTraining
  /\ eventSource = "open"
  /\ UNCHANGED <<startPending, trainingRuns>>
  /\ Commit([Component EXCEPT !.isTraining = FALSE, !.eventSource = "closed"],
            completeCalls, 0)

\* a click on the stop button
stopTraining ==
  /\ OnlyTraining
  /\ isTraining
  /\ UNCHANGED <<startPending, trainingRuns>>
  /\ Commit([Component EXCEPT !.eventSource = IF @ # "null" THEN "null" ELSE @,
                              !.isTraining = FALSE,
                              !.currentPhase = Phase("Training stopped")],
            completeCalls, 0)

\* the timer of the simulated progress fires
SimulatedProgress(step) ==
  /\ OnlyTraining
  /\ isTraining /\ progress < 100
  /\ UNCHANGED <<startPending, trainingRuns>>
  /\ Commit([Component EXCEPT
               !.progress = IF @ + step > 100 THEN 100 ELSE @ + step,
               !.currentPhase = SimulatedPhase(progress)],
            completeCalls, 0)

InitTraining ==
  /\ isTraining = FALSE
  /\ progress = 0
  /\ currentPhase = Phase("")
  /\ logs = << >>
  /\ eventSource = "null"
  /\ trainingMode = "basic"
  /\ startPending = 0
  /\ completeCalls = 0
  /\ trainingRuns = 0

NextTraining ==
  \/ \E mode \in TrainingModes : startTraining(mode)
  \/ \E ok \in BOOLEAN : StartFetchSettles(ok)
  \/ \E data \in ServerEvents : OnMessage(data)
  \/ OnError
  \/ stopTraining
  \/ \E step \in SimulatedSteps : SimulatedProgress(step)

----------------------------------------------------------------------------
(* Specifications: one per part of the system; the other parts stand still *)

\* the analysis buffer with nothing reported and no Gemini key
IdleBuffer == InitBuffer /\ analysisBuffer = << >> /\ ~geminiModel

\* GeminiClient and the routes that feed it
InitSpecBuffer == InitBuffer /\ InitServe /\ InitTrain /\ InitPredict /\ InitUpload /\ InitMiddleware /\ InitH2h
  /\ InitMonitor
    /\ InitApi /\ InitTraining
SpecBuffer == InitSpecBuffer /\ [][NextBuffer]_vars

\* the documented Python service
InitSpecServe == InitServe /\ IdleBuffer /\ InitTrain /\ InitPredict /\ InitUpload /\ InitMiddleware /\ InitH2h
  /\ InitMonitor
    /\ InitApi /\ InitTraining
SpecServe == InitSpecServe /\ [][NextServe]_vars

\* the training trigger
InitSpecTrain == InitTrain /\ IdleBuffer /\ InitServe /\ InitPredict /\ InitUpload /\ InitMiddleware /\ InitH2h
  /\ InitMonitor
    /\ InitApi /\ InitTraining
SpecTrain == InitSpecTrain /\ [][NextTrain]_vars

\* the predict route
InitSpecPredict == InitPredict /\ IdleBuffer /\ InitServe /\ InitTrain /\ InitUpload /\ InitMiddleware /\ InitH2h
  /\ InitMonitor
    /\ InitApi /\ InitTraining
SpecPredict == InitSpecPredict /\ [][NextPredict]_vars

\* the middleware
InitSpecMiddleware ==
  InitMiddleware /\ IdleBuffer /\ InitServe /\ InitTrain /\ InitPredict /\ InitUpload
    /\ InitH2h /\ InitMonitor
    /\ InitApi /\ InitTraining
SpecMiddleware == InitSpecMiddleware /\ [][NextMiddleware]_vars

\* retraining and the monitoring of the active model; the event loop runs every
\* task that is ready, and the accuracy is measured again and again
InitSpecMonitor ==
  InitMonitor /\ InitServe /\ IdleBuffer /\ InitTrain /\ InitPredict /\ InitUpload
    /\ InitMiddleware /\ InitH2h
    /\ InitApi /\ InitTraining
SpecMonitor == InitSpecMonitor /\ [][NextMonitor]_vars
SpecMonitorFair ==
  /\ SpecMonitor
  /\ WF_vars(\E accuracy \in Accuracies : RetrainEvaluate(accuracy))
  /\ WF_vars(RetrainSaved)
  /\ WF_vars(\E accuracy \in MeasuredAccuracies : MeasureAccuracy(accuracy))

\* the route handlers in front of the Python API
InitSpecApi ==
  InitMonitor /\ InitServe /\ IdleBuffer /\ InitTrain /\ InitPredict /\ InitUpload
    /\ InitMiddleware /\ InitH2h
    /\ InitApi /\ InitTraining
SpecApi == InitSpecApi /\ [][NextApi]_vars

\* the head-to-head feature
InitSpecH2h ==
  InitH2h /\ IdleBuffer /\ InitServe /\ InitTrain /\ InitPredict /\ InitUpload
    /\ InitMiddleware /\ InitMonitor
    /\ InitApi /\ InitTraining
SpecH2h == InitSpecH2h /\ [][NextH2h]_vars

\* the training panel
InitSpecTraining ==
  InitTraining /\ InitMonitor /\ InitServe /\ IdleBuffer /\ InitTrain /\ InitPredict
    /\ InitUpload /\ InitMiddleware /\ InitH2h /\ InitApi
SpecTraining == InitSpecTraining /\ [][NextTraining]_vars

\* the upload route
InitSpecUpload == InitUpload /\ IdleBuffer /\ InitServe /\ InitTrain /\ InitPredict /\ InitMiddleware /\ InitH2h
  /\ InitMonitor
    /\ InitApi /\ InitTraining
SpecUpload == InitSpecUpload /\ [][NextUpload]_vars

----------------------------------------------------------------------------
(* The analysis buffer: properties *)

RECURSIVE DrainedUpTo(_)
\* the batches of the first d drains, one after the other
DrainedUpTo(d) == IF d = 0 THEN << >> ELSE DrainedUpTo(d - 1) \o drains[d].batch

\* C1: the buffer is drained exactly once when the BUFFER_SIZE-th record is
\* appended: every drain takes exactly BUFFER_SIZE records (never fewer), the
\* buffer never stays at BUFFER_SIZE, and no two drains end with the same record.
C1_DrainsOnlyOnNth ==
  /\ \A d \in DOMAIN drains : Len(drains[d].batch) = BUFFER_SIZE
  /\ Len(analysisBuffer) < BUFFER_SIZE
  /\ \A d, e \in DOMAIN drains :
       d # e => drains[d].batch[BUFFER_SIZE].seq # drains[e].batch[BUFFER_SIZE].seq

\* C2: every record appended so far is in exactly one place: the drained
\* batches, taken in order and followed by the buffer, are the appended records
\* 1, 2, ..., each once; none is in two drains and none is lost.
C2_EveryRecordInOneDrain ==
  LET all == DrainedUpTo(Len(drains)) \o analysisBuffer
  IN /\ Len(all) = nextSeq - 1
     /\ \A i \in DOMAIN all : all[i].seq = i

\* C2 witness: two drains have happened, one analysis started by addPrediction
\* is still suspended at the advisory call, and records were appended meanwhile.
C2_Witness ==
  /\ Len(drains) >= 2
  /\ \E d \in inflight : drains[d].by = "addPrediction"
  /\ analysisBuffer # << >>

\* C3: reporting the same prediction/outcome pair again leaves
\* getStatus().bufferSize as it was.
C3_ReReportKeepsLength == lastCall.repeated => lastCall.after = lastCall.before

\* a step of the analyze route (the only handler that appends more than one
\* record) in which the buffer was drained
AnalyzeRequestDrains == nextSeq' > nextSeq + 1 /\ Len(drains') > Len(drains)

\* C21: whenever a POST analyze request causes the buffer to be drained, the
\* response to that request carries the analysis of a batch it drained
\* ('Analysis completed'), at once or when the advisory call the route awaits
\* has settled.
C21_DrainingRequestGetsAnalysis ==
  [][AnalyzeRequestDrains =>
       \/ /\ analyzeResp'.message = "Analysis completed"
          /\ analyzeResp'.drain \in (Len(drains) + 1)..Len(drains')
       \/ /\ Len(drains') \in inflight'
          /\ drains'[Len(drains')].by = "route"]_vars

\* C25: a POST analyze request that ends in an error response (400 or 500)
\* leaves the analysis buffer exactly as it was before the request.
C25_ErrorLeavesBuffer ==
  [][(analyzeResp'.status \in {400, 500} /\ analyzeResp' # analyzeResp)
       => analysisBuffer' = analysisBuffer]_vars

\* C27: after every addPrediction call has returned the buffer holds at most
\* BUFFER_SIZE - 1 records, so that the push of the next call takes it to
\* BUFFER_SIZE at most.
C27_BufferBelowSize ==
  /\ Len(analysisBuffer) <= BUFFER_SIZE - 1
  /\ \A d \in DOMAIN drains : Len(drains[d].batch) <= BUFFER_SIZE

\* C27 witness: addPrediction took the buffer to BUFFER_SIZE and drained it,
\* and records were appended after that.
C27_Witness ==
  /\ \E d \in DOMAIN drains :
       drains[d].by = "addPrediction" /\ Len(drains[d].batch) = BUFFER_SIZE
  /\ Len(analysisBuffer) > 0

\* the advisory call failed: it threw, or its text holds no parsable JSON array
FailedReply(reply) ==
  \/ reply.rejects
  \/ JsonMatch(reply.text) = << >>
  \/ ~JsonParse(JsonMatch(reply.text)).ok

\* C11: if the advisory call throws, returns text without a parsable JSON
\* array, or times out, analyzePerformance still completes and returns the
\* accuracy and patterns of the drained batch with an empty suggestion list:
\* no analysis is left suspended on a call that does not settle, and a result
\* returned after a failed reply has no suggestions.
C11_AdvisoryFailsOpen ==
  /\ hung = {}
  /\ \A r \in {lastAnalysis[i] : i \in DOMAIN lastAnalysis} :
       (r.advised /\ FailedReply(r.reply))
         => /\ r.suggestions = << >>
            /\ r.accuracy = drains[r.drain].accuracy
            /\ r.patterns = drains[r.drain].patterns

SuggestionTypes == {"weight_adjustment", "new_feature", "temporal_change"}

\* C12: every suggestion that analyzePerformance returns is well typed: an
\* object whose type is one of the three suggestion types, with its typed fields.
C12_SuggestionsWellTyped ==
  \A r \in {lastAnalysis[i] : i \in DOMAIN lastAnalysis} :
    \A i \in DOMAIN r.suggestions :
      /\ r.suggestions[i].isObject
      /\ r.suggestions[i].type \in SuggestionTypes
      /\ r.suggestions[i].typedFields

\* C20: the accuracy analyzePerformance returns is the fraction of the drained
\* records whose predicted outcome equals their actual outcome.
C20_AccuracyIsHitRate ==
  \A r \in {lastAnalysis[i] : i \in DOMAIN lastAnalysis} :
    LET batch == drains[r.drain].batch
        hits == Cardinality({i \in DOMAIN batch : batch[i].predicted = batch[i].actual})
    IN r.accuracy[1] * Len(batch) = hits * r.accuracy[2]


----------------------------------------------------------------------------
(* The documented Python service: properties *)

\* C4: in every retraining cycle the candidate replaces the active model if and
\* only if its accuracy strictly exceeds the accuracy measured for the model
\* that is active at that moment; on a tie or a lower accuracy it is discarded.
C4_PromotesOnlyIfBetter ==
  lastRetrain.ran =>
    (lastRetrain.promoted <=> lastRetrain.candidate > lastRetrain.incumbent)

\* C5: no request is answered from the cache with a prediction computed under a
\* model that is no longer the active one.
C5_NoStaleCachedAnswer ==
  \A c \in Clients :
    (served[c] # << >> /\ served[c][1].cached)
      => served[c][1].result.prediction[1] = served[c][1].active

\* C6: concurrent requests for the same home team, away team and date lead to
\* one predictor invocation: at most one of them is past the cache lookup and
\* on its way to model.predict, and the responses they got are identical.
C6_OneInvocationPerKey ==
  \A c, d \in Clients :
    c # d =>
      /\ (req[c] # << >> => req[d] # req[c])
      /\ (served[c] # << >> /\ served[d] # << >> /\ served[c][1].key = served[d][1].key
            /\ served[c][1].active = served[d][1].active
          => served[c][1].result = served[d][1].result)

----------------------------------------------------------------------------
(* The training trigger: properties *)

\* C7: a user's trigger is admitted if and only if fewer than
\* MAX_REQUESTS_PER_WINDOW of that user's triggers were admitted during the
\* preceding RATE_LIMIT_WINDOW.
C7_AdmitsUpToMax ==
  trainResp.status \in {200, 429, 500} =>
    (trainResp.status # 429 <=> trainResp.before < MAX_REQUESTS_PER_WINDOW)

\* C26: the rate-limit map changes only when a training request is admitted:
\* a request answered 401 or 429 leaves every entry as it was, and an admitted
\* request changes the entry of its own user only.
C26_MapChangesOnlyOnAdmission ==
  [][trainingRequests' # trainingRequests =>
       /\ trainResp'.status \in {200, 500}
       /\ trainResp'.at = now
       /\ \A u \in DOMAIN trainingRequests' \ {trainResp'.userId} :
            u \in DOMAIN trainingRequests /\ trainingRequests'[u] = trainingRequests[u]
       /\ DOMAIN trainingRequests \subseteq DOMAIN trainingRequests']_vars

\* C26 witness: a user was refused (429) some time after being admitted, while
\* another user has an entry of their own; the refused user's entry still holds
\* the time of the admission.
C26_Witness ==
  /\ trainResp.status = 429
  /\ trainResp.userId = "ann@example.org"
  /\ trainResp.at = now
  /\ "bob@example.org" \in DOMAIN trainingRequests
  /\ trainingRequests["ann@example.org"] < now
  /\ trainingRequests["bob@example.org"] # trainingRequests["ann@example.org"]

----------------------------------------------------------------------------
(* POST /api/predict: properties *)

\* the responses that carry the local predictor's answer
FallbackResponses ==
  {predictResp[c][1] : c \in {d \in Callers : predictResp[d] # << >>
                                               /\ predictResp[d][1].source = "fallback"}}

Responses == {predictResp[c][1] : c \in {d \in Callers : predictResp[d] # << >>}}

ProbabilityOf(prediction, result) ==
  IF result = "H" THEN prediction.probabilities.home
  ELSE IF result = "D" THEN prediction.probabilities.draw
  ELSE prediction.probabilities.away

\* C8: for every feature input the three probabilities of generatePrediction
\* sum to 1, exactly one of them equals the confidence, the confidence is the
\* largest of the three, and it is the probability of the reported result.
C8_ProbabilitiesAndConfidence ==
  \A r \in FallbackResponses :
    LET p == r.prediction[1]
        each == [o \in {"H", "D", "A"} |-> ProbabilityOf(p, o)]
    IN /\ FracAdd(FracAdd(each["H"], each["D"]), each["A"]) = <<1, 1>>
       /\ Cardinality({o \in {"H", "D", "A"} : each[o] = p.confidence}) = 1
       /\ \A o \in {"H", "D", "A"} : ~FracGt(each[o], p.confidence)
       /\ each[p.result] = p.confidence

\* C8 witness: the local predictor answered an away win from boosted
\* probabilities (the total before normalisation was above 1).
C8_Witness ==
  \E r \in FallbackResponses :
    /\ r.prediction[1].result = "A"
    /\ r.prediction[1].probabilities.draw # Div(26, 100)

\* C9 as stated: when the Python API answers not OK, the caller gets an error
\* and no locally generated prediction.
C9_NonOkSurfacesError ==
  \A r \in Responses :
    r.upstream = "not ok" => (r.status # 200 /\ r.prediction = << >>)

\* C9 as the route behaves: a not-OK answer of the Python API to a request with
\* a features object is answered 200 with generatePrediction(features) and
\* source 'fallback'; an error is surfaced only when the fetch itself fails or
\* the body has no features.
C9_NonOkFallsBack ==
  \A r \in Responses :
    /\ (r.upstream = "not ok" /\ r.body.features # << >>)
         => /\ r.status = 200
            /\ r.source = "fallback"
            /\ r.prediction = <<generatePrediction(r.body.features[1])>>
    /\ (r.upstream = "rejects" \/ (r.upstream = "not ok" /\ r.body.features = << >>))
         => /\ r.status = 500
            /\ r.error = "Prediction failed"
            /\ r.prediction = << >>

\* C9 witness: the Python API answered not OK and the caller got a home win
\* from the local predictor.
C9_Witness ==
  \E r \in Responses :
    /\ r.upstream = "not ok"
    /\ r.status = 200
    /\ r.source = "fallback"
    /\ r.prediction[1].result = "H"

\* C10: whenever the Python API is down (not OK, or the fetch fails), an
\* authenticated request with both teams and features is answered with the
\* local generatePrediction and source 'fallback'.
C10_DownStillPredicts ==
  \A r \in Responses :
    (r.upstream \in {"not ok", "rejects"} /\ r.body.features # << >>)
      => /\ r.status = 200
         /\ r.source = "fallback"
         /\ r.prediction = <<generatePrediction(r.body.features[1])>>

\* the callers whose response in view carries the local predictor's answer
FallbackCallers ==
  {c \in Callers : predictResp[c] # << >> /\ predictResp[c][1].source = "fallback"}

ExampleFeatures ==
  [home_shots_on_target |-> {6}, away_shots_on_target |-> {2}, home_elo |-> {1600},
   away_elo |-> {1400}, home_form |-> {8}, away_form |-> {3}]

\* C17: for home shots on target 6, away 2, home form 0.8, away 0.3, home
\* strength 1600, away 1400 the predictor returns the home outcome with
\* confidence greater than 1/3.
C17_ExampleIsHomeWin ==
  \A r \in FallbackResponses :
    r.body.features = <<ExampleFeatures>>
      => /\ r.prediction[1].result = "H"
         /\ FracGt(r.prediction[1].confidence, <<1, 3>>)

\* C17 witness: the local predictor answered a request with the example's
\* features and valid teams.
C17_Witness ==
  \E r \in FallbackResponses :
    /\ r.body.features = <<ExampleFeatures>>
    /\ r.body.homeTeam = "Arsenal" /\ r.body.awayTeam = "Chelsea"
    /\ r.prediction[1].confidence = Div(73, 130)

\* homeTeam and awayTeam are both given and differ
ValidTeams(body) ==
  body.homeTeam # "" /\ body.awayTeam # "" /\ body.homeTeam # body.awayTeam

\* C13: a prediction request whose teams are identical, or lack one, is
\* rejected with an error response, and no prediction is computed or requested
\* upstream for it.
C13_InvalidTeamsRejected ==
  /\ \A c \in Callers : predictReq[c] # << >> => ValidTeams(predictReq[c][1])
  /\ \A r \in Responses :
       (r.body.session /\ ~ValidTeams(r.body))
         => /\ r.status = 400
            /\ r.prediction = << >>
            /\ r.upstream = "none"

----------------------------------------------------------------------------
(* POST /api/upload: properties *)

\* a match shows the fabrication pattern: shots on target = goals + 2, home or away
Fabricated(match) ==
  \/ \E x \in TenthsOf(match.home_shots_on_target), y \in TenthsOf(match.home_goals) :
       x = y + 20
  \/ \E x \in TenthsOf(match.away_shots_on_target), y \in TenthsOf(match.away_goals) :
       x = y + 20

----------------------------------------------------------------------------
(* middleware.ts: properties *)

\* C15: for every path the middleware handles other than '/login' and
\* '/api/health', the request is authorized only if it carries a session
\* token; '/login' and '/api/health' are authorized without one.
C15_TokenUnlessPublic ==
  mwLast.handled =>
    IF mwLast.path \in {"/login", "/api/health"}
      THEN mwLast.authorized /\ mwLast.outcome = "next"
      ELSE (mwLast.authorized \/ mwLast.outcome = "next") => mwLast.token # << >>

\* C15 witness: a request for /api/predict without a token was handled and
\* sent to the sign-in page.
C15_Witness ==
  /\ mwLast.path = "/api/predict"
  /\ mwLast.token = << >>
  /\ mwLast.handled
  /\ mwLast.outcome = "sign-in"

----------------------------------------------------------------------------
(* The head-to-head feature: properties *)

\* the page's counts say there is no head-to-head history
NoHistoryOnPage(f) ==
  f.h2h_home_wins = {0} /\ f.h2h_draws = {0} /\ f.h2h_away_wins = {0}

----------------------------------------------------------------------------
(* Monitoring: properties *)

----------------------------------------------------------------------------
(* The route handlers in front of the Python API: properties *)

\* C24: every route handler that calls the Python API with the API key checks
\* the session first: a call without a session is answered 401 and no request
\* goes upstream for it.
C24_NoSessionNoUpstream ==
  /\ (apiLast.handler # "" /\ apiLast.session = << >>)
       => (apiLast.status = 401 /\ apiLast.upstream = "none")
  /\ \A i \in DOMAIN upstreamLog : upstreamLog[i].session # << >>

----------------------------------------------------------------------------
(* The training panel: properties *)

\* C23: onTrainingComplete is called at most once per training run, whatever
\* the order of the server's complete event, the server's progress values and
\* the simulated timer reaching 100.
C23_CompleteAtMostOnce == completeCalls <= 1

\* C22: after stopTraining the panel stays not training and its progress, phase
\* and logs do not change until training is started again, also when stop was
\* pressed while the POST was in flight and the event stream was not yet open.
C22_StoppedStaysStopped ==
  [][(currentPhase = Phase("Training stopped") /\ trainingRuns' = trainingRuns)
       => /\ ~isTraining'
          /\ progress' = progress
          /\ currentPhase' = currentPhase
          /\ logs' = logs]_vars

====
